---- MODULE Spec2Model ----
(***************************************************************************)
(* PKCS#7 streaming padding: cryptography/hazmat/primitives/padding.py.    *)
(*                                                                         *)
(* The state is one PKCS7 scheme object, the padding context "P" and the   *)
(* unpadding context "U" made by its factories, and what the caller has    *)
(* seen: per context the bytes its update calls appended to the buffer     *)
(* (inp), the bytes returned so far (out), and the last call with its      *)
(* outcome (last).  The caller either forwards the padder's output to the  *)
(* unpadder, possibly with one bit of the padding flipped on the way, or,  *)
(* when no padder was made, feeds the unpadder bytes of its own choice.    *)
(* A second specification, SpecMulti, has a caller that holds two padders  *)
(* and an unpadder of the same scheme and calls them in any order.         *)
(***************************************************************************)
EXTENDS Integers, Sequences, FiniteSets, TLC

\* ------------------------------------------------------------------ bounds

\* Longest message: the total bytes a caller passes to the padder's update.
MaxLen == 3

\* Longest input a caller that chooses the bytes itself passes to the
\* unpadder's update.
MaxFeed == 4

\* Caller-chosen bytes are drawn from 0..MaxByte.
MaxByte == 1

\* Largest block size, in bytes, the scheme is constructed with.
MaxBlockBytes == 3

\* The longest input of each context when several are used side by side
MultiLen == 3

\* ------------------------------------------------------- program constants

\* block_size must be in range(0, 256)
BlockSizeLimit == 256

\* block_size is in bits; a byte has 8 of them
BitsPerByte == 8

\* self._buffer = None
None == << -1 >>

\* b""
EmptyBytes == << >>

NoError == "none"
UseAfterFinalize == "ValueError: Context was already finalized"
EncodingErrorPad == "TypeError: Unicode-objects must be encoded before padding"
EncodingErrorUnpad == "TypeError: Unicode-objects must be encoded before unpadding"
InvalidPadding == "ValueError: Invalid padding bytes"
InvalidParameterRange == "ValueError: block_size must be in range(0, 256)"
InvalidParameterMultiple == "ValueError: block_size must be a multiple of 8"
ZeroDivisionError == "ZeroDivisionError: integer division or modulo by zero"
Int2ByteError == "int2byte: argument not in range(256)"

\* ------------------------------------------------------------ byte helpers

\* b ^ pad_size on non-negative integers, bit by bit
RECURSIVE Xor(_, _)
Xor(a, b) ==
    IF a = 0 THEN b
    ELSE IF b = 0 THEN a
    ELSE (IF a % 2 # b % 2 THEN 1 ELSE 0) + 2 * Xor(a \div 2, b \div 2)

\* mismatch |= x on non-negative integers, bit by bit
RECURSIVE Or(_, _)
Or(a, b) ==
    IF a = 0 THEN b
    ELSE IF b = 0 THEN a
    ELSE (IF a % 2 = 1 \/ b % 2 = 1 THEN 1 ELSE 0) + 2 * Or(a \div 2, b \div 2)

\* Python's sequence index normalisation in a slice: a negative index counts
\* from the end, and the result is clamped to 0..len.
SliceIndex(i, len) ==
    LET j == IF i < 0 THEN i + len ELSE i
    IN  IF j < 0 THEN 0 ELSE IF j > len THEN len ELSE j

\* s[i:]
SliceFrom(s, i) == SubSeq(s, SliceIndex(i, Len(s)) + 1, Len(s))

\* s[:j]
SliceTo(s, j) == SubSeq(s, 1, SliceIndex(j, Len(s)))

\* six.int2byte(v) * n, for a v that int2byte accepts (n <= 0 gives b"")
Repeat(v, n) == [i \in 1..n |-> v]

\* max(a, b)
Max(a, b) == IF a >= b THEN a ELSE b

\* The outcome of a call: the context's buffer after it, the bytes it
\* returned, the exception it raised, and finalize's pad_size local
\* (-1 when the call did not compute one).
Outcome(buf, res, e, ps) ==
    [buffer |-> buf, result |-> res, err |-> e, pad_size |-> ps]

\* ---------------------------------------------------------------- PKCS7

\* __init__ with the upper limit itself let through
PKCS7_init_inclusive(block_size) ==
    IF ~(0 <= block_size /\ block_size <= BlockSizeLimit) THEN InvalidParameterRange
    ELSE IF block_size % BitsPerByte # 0 THEN InvalidParameterMultiple
    ELSE NoError

\* PKCS7.__init__: the exception raised for block_size, or NoError
PKCS7_init(block_size) ==
    IF ~(0 <= block_size /\ block_size < BlockSizeLimit) THEN InvalidParameterRange
    ELSE IF block_size % BitsPerByte # 0 THEN InvalidParameterMultiple
    ELSE NoError

\* _PKCS7PaddingContext.__init__ / _PKCS7UnpaddingContext.__init__
Context_init(block_size) == [block_size |-> block_size, buffer |-> EmptyBytes]

\* ------------------------------------------------- _PKCS7PaddingContext

\* update with the unpadder's arithmetic: the last whole block is kept back
PaddingContext_update_withhold(self, data) ==
    IF self.buffer = None THEN Outcome(None, EmptyBytes, UseAfterFinalize, -1)
    ELSE IF data.text THEN Outcome(self.buffer, EmptyBytes, EncodingErrorPad, -1)
    ELSE LET buf == self.buffer \o data.val
             bb  == self.block_size \div BitsPerByte
         IN  IF bb = 0 THEN Outcome(buf, EmptyBytes, ZeroDivisionError, -1)
             ELSE LET finished_blocks == Max(Len(buf) \div bb - 1, 0)
                  IN  Outcome(SliceFrom(buf, finished_blocks * bb),
                              SliceTo(buf, finished_blocks * bb), NoError, -1)

\* update that returns the whole buffer once it holds a block
PaddingContext_update_flush(self, data) ==
    IF self.buffer = None THEN Outcome(None, EmptyBytes, UseAfterFinalize, -1)
    ELSE IF data.text THEN Outcome(self.buffer, EmptyBytes, EncodingErrorPad, -1)
    ELSE LET buf == self.buffer \o data.val
             bb  == self.block_size \div BitsPerByte
         IN  IF bb = 0 THEN Outcome(buf, EmptyBytes, ZeroDivisionError, -1)
             ELSE IF Len(buf) \div bb >= 1
                  THEN Outcome(EmptyBytes, buf, NoError, -1)
                  ELSE Outcome(buf, EmptyBytes, NoError, -1)

\* update that looks at the type of data before the finalized check
PaddingContext_update_textfirst(self, data) ==
    IF data.text THEN Outcome(self.buffer, EmptyBytes, EncodingErrorPad, -1)
    ELSE IF self.buffer = None THEN Outcome(None, EmptyBytes, UseAfterFinalize, -1)
    ELSE LET buf == self.buffer \o data.val
             bb  == self.block_size \div BitsPerByte
         IN  IF bb = 0 THEN Outcome(buf, EmptyBytes, ZeroDivisionError, -1)
             ELSE LET finished_blocks == Len(buf) \div bb
                  IN  Outcome(SliceFrom(buf, finished_blocks * bb),
                              SliceTo(buf, finished_blocks * bb), NoError, -1)

PaddingContext_update(self, data) ==
    IF self.buffer = None THEN Outcome(None, EmptyBytes, UseAfterFinalize, -1)
    ELSE IF data.text THEN Outcome(self.buffer, EmptyBytes, EncodingErrorPad, -1)
    ELSE LET buf == self.buffer \o data.val
             bb  == self.block_size \div BitsPerByte
         IN  IF bb = 0 THEN Outcome(buf, EmptyBytes, ZeroDivisionError, -1)
             ELSE LET finished_blocks == Len(buf) \div bb
                  IN  Outcome(SliceFrom(buf, finished_blocks * bb),
                              SliceTo(buf, finished_blocks * bb), NoError, -1)

\* finalize that adds no block to a message that already fills its blocks
PaddingContext_finalize_nofull(self) ==
    IF self.buffer = None THEN Outcome(None, EmptyBytes, UseAfterFinalize, -1)
    ELSE LET bb == self.block_size \div BitsPerByte
             pad_size == IF bb = 0 THEN 0 ELSE (bb - Len(self.buffer)) % bb
         IN  Outcome(None, self.buffer \o Repeat(pad_size, pad_size),
                     NoError, pad_size)

\* finalize that appends one pad byte too few
PaddingContext_finalize_short(self) ==
    IF self.buffer = None THEN Outcome(None, EmptyBytes, UseAfterFinalize, -1)
    ELSE LET pad_size == self.block_size \div BitsPerByte - Len(self.buffer)
         IN  IF pad_size < 0 \/ pad_size > 255
             THEN Outcome(self.buffer, EmptyBytes, Int2ByteError, pad_size)
             ELSE Outcome(None, self.buffer \o Repeat(pad_size, pad_size - 1),
                          NoError, pad_size)

PaddingContext_finalize(self) ==
    IF self.buffer = None THEN Outcome(None, EmptyBytes, UseAfterFinalize, -1)
    ELSE LET pad_size == self.block_size \div BitsPerByte - Len(self.buffer)
         IN  IF pad_size < 0 \/ pad_size > 255
             THEN Outcome(self.buffer, EmptyBytes, Int2ByteError, pad_size)
             ELSE Outcome(None, self.buffer \o Repeat(pad_size, pad_size),
                          NoError, pad_size)

\* ----------------------------------------------- _PKCS7UnpaddingContext

\* update with the padder's arithmetic: no block is withheld
UnpaddingContext_update_nowithhold(self, data) ==
    IF self.buffer = None THEN Outcome(None, EmptyBytes, UseAfterFinalize, -1)
    ELSE IF data.text THEN Outcome(self.buffer, EmptyBytes, EncodingErrorUnpad, -1)
    ELSE LET buf == self.buffer \o data.val
             bb  == self.block_size \div BitsPerByte
         IN  IF bb = 0 THEN Outcome(buf, EmptyBytes, ZeroDivisionError, -1)
             ELSE LET finished_blocks == Len(buf) \div bb
                  IN  Outcome(SliceFrom(buf, finished_blocks * bb),
                              SliceTo(buf, finished_blocks * bb), NoError, -1)

\* update that starts from data alone: self._buffer = data
UnpaddingContext_update_overwrite(self, data) ==
    IF self.buffer = None THEN Outcome(None, EmptyBytes, UseAfterFinalize, -1)
    ELSE IF data.text THEN Outcome(self.buffer, EmptyBytes, EncodingErrorUnpad, -1)
    ELSE LET buf == data.val
             bb  == self.block_size \div BitsPerByte
         IN  IF bb = 0 THEN Outcome(buf, EmptyBytes, ZeroDivisionError, -1)
             ELSE LET finished_blocks == Max(Len(buf) \div bb - 1, 0)
                  IN  Outcome(SliceFrom(buf, finished_blocks * bb),
                              SliceTo(buf, finished_blocks * bb), NoError, -1)

\* update that withholds the last byte instead of the last block
UnpaddingContext_update_lastbyte(self, data) ==
    IF self.buffer = None THEN Outcome(None, EmptyBytes, UseAfterFinalize, -1)
    ELSE IF data.text THEN Outcome(self.buffer, EmptyBytes, EncodingErrorUnpad, -1)
    ELSE LET buf == self.buffer \o data.val
             bb  == self.block_size \div BitsPerByte
         IN  IF bb = 0 THEN Outcome(buf, EmptyBytes, ZeroDivisionError, -1)
             ELSE LET finished_blocks == Max((Len(buf) - 1) \div bb, 0)
                  IN  Outcome(SliceFrom(buf, finished_blocks * bb),
                              SliceTo(buf, finished_blocks * bb), NoError, -1)

\* update that appends data to the buffer before it looks at its type
UnpaddingContext_update_textlate(self, data) ==
    IF self.buffer = None THEN Outcome(None, EmptyBytes, UseAfterFinalize, -1)
    ELSE LET buf == self.buffer \o data.val
             bb  == self.block_size \div BitsPerByte
         IN  IF data.text THEN Outcome(buf, EmptyBytes, EncodingErrorUnpad, -1)
             ELSE IF bb = 0 THEN Outcome(buf, EmptyBytes, ZeroDivisionError, -1)
             ELSE LET finished_blocks == Max(Len(buf) \div bb - 1, 0)
                  IN  Outcome(SliceFrom(buf, finished_blocks * bb),
                              SliceTo(buf, finished_blocks * bb), NoError, -1)

UnpaddingContext_update(self, data) ==
    IF self.buffer = None THEN Outcome(None, EmptyBytes, UseAfterFinalize, -1)
    ELSE IF data.text THEN Outcome(self.buffer, EmptyBytes, EncodingErrorUnpad, -1)
    ELSE LET buf == self.buffer \o data.val
             bb  == self.block_size \div BitsPerByte
         IN  IF bb = 0 THEN Outcome(buf, EmptyBytes, ZeroDivisionError, -1)
             ELSE LET finished_blocks == Max(Len(buf) \div bb - 1, 0)
                  IN  Outcome(SliceFrom(buf, finished_blocks * bb),
                              SliceTo(buf, finished_blocks * bb), NoError, -1)

\* mismatch = b ^ pad_size: each byte overwrites the verdict of the ones before
Mismatch_lastonly(window, pad_size) ==
    IF window = EmptyBytes THEN 0
    ELSE Xor(window[Len(window)], pad_size)

\* for b in six.iterbytes(window): mismatch |= b ^ pad_size
RECURSIVE Mismatch(_, _)
Mismatch(window, pad_size) ==
    IF window = EmptyBytes THEN 0
    ELSE Or(Mismatch(Tail(window), pad_size), Xor(Head(window), pad_size))

\* a loop that is left at the first byte that differs from pad_size
RECURSIVE Comparisons_shortcircuit(_, _)
Comparisons_shortcircuit(window, pad_size) ==
    IF window = EmptyBytes THEN 0
    ELSE IF Head(window) # pad_size THEN 1
    ELSE 1 + Comparisons_shortcircuit(Tail(window), pad_size)

\* for b in six.iterbytes(window): the number of times the body, with its one
\* b ^ pad_size, is run
RECURSIVE Comparisons(_, _)
Comparisons(window, pad_size) ==
    IF window = EmptyBytes THEN 0
    ELSE 1 + Comparisons(Tail(window), pad_size)

\* finalize that gives up its buffer before it validates it
UnpaddingContext_finalize_consume(self) ==
    IF self.buffer = None THEN Outcome(None, EmptyBytes, UseAfterFinalize, -1)
    ELSE IF self.buffer = EmptyBytes
         THEN Outcome(None, EmptyBytes, InvalidPadding, -1)
    ELSE LET pad_size == self.buffer[Len(self.buffer)]
         IN  IF pad_size > self.block_size \div BitsPerByte
             THEN Outcome(None, EmptyBytes, InvalidPadding, pad_size)
             ELSE IF Mismatch(SliceFrom(self.buffer, -pad_size), pad_size) # 0
             THEN Outcome(None, EmptyBytes, InvalidPadding, pad_size)
             ELSE Outcome(None, SliceTo(self.buffer, -pad_size), NoError, pad_size)

\* finalize that tells an oversized pad length apart from the other failures
UnpaddingContext_finalize_distinct(self) ==
    IF self.buffer = None THEN Outcome(None, EmptyBytes, UseAfterFinalize, -1)
    ELSE IF self.buffer = EmptyBytes
         THEN Outcome(self.buffer, EmptyBytes, InvalidPadding, -1)
    ELSE LET pad_size == self.buffer[Len(self.buffer)]
         IN  IF pad_size > self.block_size \div BitsPerByte
             THEN Outcome(self.buffer, EmptyBytes,
                          "ValueError: Invalid padding length", pad_size)
             ELSE IF Mismatch(SliceFrom(self.buffer, -pad_size), pad_size) # 0
             THEN Outcome(self.buffer, EmptyBytes, InvalidPadding, pad_size)
             ELSE Outcome(None, SliceTo(self.buffer, -pad_size), NoError, pad_size)

\* finalize that trusts the pad length without looking at the pad bytes
UnpaddingContext_finalize_nocontent(self) ==
    IF self.buffer = None THEN Outcome(None, EmptyBytes, UseAfterFinalize, -1)
    ELSE IF self.buffer = EmptyBytes
         THEN Outcome(self.buffer, EmptyBytes, InvalidPadding, -1)
    ELSE LET pad_size == self.buffer[Len(self.buffer)]
         IN  IF pad_size > self.block_size \div BitsPerByte
             THEN Outcome(self.buffer, EmptyBytes, InvalidPadding, pad_size)
             ELSE Outcome(None, SliceTo(self.buffer, -pad_size), NoError, pad_size)

\* The outcome of a finalize that ran the loop over the padding window, with
\* the number of comparisons the loop made
Looped(o, n) == [compares |-> n] @@ o

UnpaddingContext_finalize(self) ==
    IF self.buffer = None THEN Outcome(None, EmptyBytes, UseAfterFinalize, -1)
    ELSE IF self.buffer = EmptyBytes
         THEN Outcome(self.buffer, EmptyBytes, InvalidPadding, -1)
    ELSE LET pad_size == self.buffer[Len(self.buffer)]
             window == SliceFrom(self.buffer, -pad_size)
         IN  IF pad_size > self.block_size \div BitsPerByte
             THEN Outcome(self.buffer, EmptyBytes, InvalidPadding, pad_size)
             ELSE IF Mismatch(window, pad_size) # 0
             THEN Looped(Outcome(self.buffer, EmptyBytes, InvalidPadding, pad_size),
                         Comparisons(window, pad_size))
             ELSE Looped(Outcome(None, SliceTo(self.buffer, -pad_size), NoError, pad_size),
                         Comparisons(window, pad_size))

\* ------------------------------------------------------------- the caller

\* The block sizes the caller tries to construct the scheme with: every
\* integer up to MaxBlockBytes bytes, and the two around the upper limit.
BlockSizeArgs ==
    (-1 .. MaxBlockBytes * BitsPerByte) \cup {BlockSizeLimit - 1, BlockSizeLimit}

\* Byte strings of at most k caller-chosen bytes
BytesUpTo(k) == UNION {[1..l -> 0..MaxByte] : l \in 0..k}

Bytes(val) == [text |-> FALSE, val |-> val]
Text(val) == [text |-> TRUE, val |-> val]

\* Unicode strings a caller may pass by mistake
Texts == {Text(v) : v \in BytesUpTo(1)}

Engines == {"P", "U"}

VARIABLES
    scheme,   \* the PKCS7 object: constructed or not, and its block_size
    ctx,      \* the contexts made so far, by name: block_size and buffer
    inp,      \* per context, the bytes update calls have appended so far
    out,      \* per context, the bytes its calls have returned so far
    flip,     \* the bit flipped between padder and unpadder: <<pos, bit>>
    last      \* the last call and its outcome

vars == <<scheme, ctx, inp, out, flip, last>>

Call(op, eng, arg, active, buf, text, o) ==
    [op |-> op, eng |-> eng, arg |-> arg, active |-> active, buf |-> buf,
     text |-> text, out |-> o.result, err |-> o.err, pad_size |-> o.pad_size,
     compares |-> IF "compares" \in DOMAIN o THEN o.compares ELSE 0]

NoCall ==
    [op |-> "none", eng |-> "none", arg |-> 0, active |-> FALSE,
     buf |-> EmptyBytes, text |-> FALSE, out |-> EmptyBytes, err |-> NoError,
     pad_size |-> -1, compares |-> 0]

Made(e) == e \in DOMAIN ctx
Active(e) == Made(e) /\ ctx[e].buffer # None
Finalized(e) == Made(e) /\ ctx[e].buffer = None

\* How many more bytes the caller passes to context e in one update call: what
\* is left of its longest input, or, once e is finalized (when update raises
\* whatever it is given), at most one.
Room(e, longest) ==
    IF Finalized(e) THEN 1
    ELSE longest - Len(inp[e])

\* The padder's output as it reaches the unpadder
Wire ==
    IF flip = << >> THEN out["P"]
    ELSE [out["P"] EXCEPT ![flip[1]] = Xor(@, 2 ^ flip[2])]

\* The part of it not yet passed to the unpadder
Pending == SubSeq(Wire, Len(inp["U"]) + 1, Len(Wire))

Init ==
    /\ scheme = [constructed |-> FALSE, block_size |-> 0]
    /\ ctx = [e \in {} |-> 0]
    /\ inp = [e \in Engines |-> EmptyBytes]
    /\ out = [e \in Engines |-> EmptyBytes]
    /\ flip = << >>
    /\ last = NoCall

\* PKCS7(block_size)
Construct(block_size) ==
    /\ ~scheme.constructed
    /\ LET e == PKCS7_init(block_size)
       IN  /\ scheme' = IF e = NoError
                        THEN [constructed |-> TRUE, block_size |-> block_size]
                        ELSE scheme
           /\ last' = Call("init", "scheme", block_size, FALSE, EmptyBytes, FALSE,
                           Outcome(EmptyBytes, EmptyBytes, e, -1))
    /\ UNCHANGED <<ctx, inp, out, flip>>

\* padder() / unpadder() that hand out a context sharing the buffer of one
\* made before
Factory_shared(e) ==
    /\ scheme.constructed
    /\ ~Made(e)
    /\ ctx' = (e :> IF DOMAIN ctx = {} THEN Context_init(scheme.block_size)
                    ELSE ctx[CHOOSE x \in DOMAIN ctx : TRUE]) @@ ctx
    /\ last' = Call("factory", e, 0, FALSE, EmptyBytes, FALSE,
                    Outcome(EmptyBytes, EmptyBytes, NoError, -1))
    /\ UNCHANGED <<scheme, inp, out, flip>>

\* PKCS7.padder() / PKCS7.unpadder()
Factory(e) ==
    /\ scheme.constructed
    /\ ~Made(e)
    /\ ctx' = (e :> Context_init(scheme.block_size)) @@ ctx
    /\ last' = Call("factory", e, 0, FALSE, EmptyBytes, FALSE,
                    Outcome(EmptyBytes, EmptyBytes, NoError, -1))
    /\ UNCHANGED <<scheme, inp, out, flip>>

\* The caller makes a padder only for an unpadder it has not fed by itself.
MakePadder ==
    /\ Made("U") => (ctx["U"].buffer = EmptyBytes /\ last.op # "update")
    /\ Factory("P")

MakeUnpadder == Factory("U")

\* context.update(data) and context.finalize(), on either context
Apply(op, e, data, o) ==
    /\ ctx' = [ctx EXCEPT ![e].buffer = o.buffer]
    /\ inp' = IF op = "update" /\ Active(e) /\ ~data.text
              THEN [inp EXCEPT ![e] = @ \o data.val] ELSE inp
    /\ out' = [out EXCEPT ![e] = @ \o o.result]
    /\ last' = Call(op, e, 0, Active(e), ctx[e].buffer, data.text, o)
    /\ UNCHANGED <<scheme, flip>>

PadderUpdate(data) ==
    /\ Made("P")
    /\ Len(inp["P"]) + Len(data.val) <= MaxLen
    /\ Apply("update", "P", data, PaddingContext_update(ctx["P"], data))

PadderFinalize ==
    /\ Made("P")
    /\ Apply("finalize", "P", Bytes(EmptyBytes), PaddingContext_finalize(ctx["P"]))

UnpadderUpdate(data) ==
    /\ Made("U")
    /\ Apply("update", "U", data, UnpaddingContext_update(ctx["U"], data))

UnpadderFinalize ==
    /\ Made("U")
    /\ Apply("finalize", "U", Bytes(EmptyBytes), UnpaddingContext_finalize(ctx["U"]))

\* One bit of a pad byte still on its way to the unpadder is flipped.
Tamper(pos, bit) ==
    /\ flip = << >>
    /\ Finalized("P")
    /\ pos \in (Max(Len(inp["U"]), Len(inp["P"])) + 1) .. Len(out["P"])
    /\ flip' = <<pos, bit>>
    /\ UNCHANGED <<scheme, ctx, inp, out, last>>

\* The unpadder is fed the padder's output, in pieces of any size;
FeedFromPadder ==
    /\ Made("P")
    /\ \E k \in 0..Len(Pending) : UnpadderUpdate(Bytes(SubSeq(Pending, 1, k)))

\* or, with no padder around, bytes the caller chooses;
FeedChosen ==
    /\ ~Made("P")
    /\ \E val \in BytesUpTo(Room("U", MaxFeed)) : UnpadderUpdate(Bytes(val))

\* or, by mistake, text.
FeedText == \E data \in Texts : UnpadderUpdate(data)

Next ==
    \/ \E block_size \in BlockSizeArgs : Construct(block_size)
    \/ MakePadder
    \/ MakeUnpadder
    \/ \E val \in BytesUpTo(Room("P", MaxLen)) : PadderUpdate(Bytes(val))
    \/ \E data \in Texts : PadderUpdate(data)
    \/ PadderFinalize
    \/ FeedFromPadder
    \/ FeedChosen
    \/ FeedText
    \/ UnpadderFinalize
    \/ \E pos \in 1..(MaxLen + MaxBlockBytes), bit \in 0..(BitsPerByte - 1) :
          Tamper(pos, bit)

Spec == Init /\ [][Next]_vars

\* ------------------------------------------- several contexts of one scheme

\* A caller that holds two padders and an unpadder of the same PKCS7 object and
\* calls them in any order, each with bytes of its own.
MultiEngines == {"P", "P2", "U"}

IsPadder(e) == e \in {"P", "P2"}

\* What the caller passes to context e: k bytes, 0 for "P" and 1 for the others
MultiData(e, k) == Bytes(Repeat(IF e = "P" THEN 0 ELSE 1, k))

InitMulti ==
    /\ scheme = [constructed |-> FALSE, block_size |-> 0]
    /\ ctx = [e \in {} |-> 0]
    /\ inp = [e \in MultiEngines |-> EmptyBytes]
    /\ out = [e \in MultiEngines |-> EmptyBytes]
    /\ flip = << >>
    /\ last = NoCall

MultiUpdate(e, data) ==
    /\ Made(e)
    /\ Len(inp[e]) + Len(data.val) <= MultiLen
    /\ Apply("update", e, data,
             IF IsPadder(e) THEN PaddingContext_update(ctx[e], data)
             ELSE UnpaddingContext_update(ctx[e], data))

MultiFinalize(e) ==
    /\ Made(e)
    /\ Apply("finalize", e, Bytes(EmptyBytes),
             IF IsPadder(e) THEN PaddingContext_finalize(ctx[e])
             ELSE UnpaddingContext_finalize(ctx[e]))

NextMulti ==
    \/ \E block_size \in BlockSizeArgs : Construct(block_size)
    \/ \E e \in MultiEngines : Factory(e)
    \/ \E e \in MultiEngines, k \in 0..MultiLen : MultiUpdate(e, MultiData(e, k))
    \/ \E e \in MultiEngines : MultiFinalize(e)

SpecMulti == InitMulti /\ [][NextMulti]_vars

\* ---------------------------------------------------------------- claims

\* self.block_size // 8 of the contexts the scheme makes
BlockBytes == scheme.block_size \div BitsPerByte

\* The last call was op on context e
LastCall(op, e) == last.op = op /\ last.eng = e

\* The whole of the padder's output, untouched, has been passed to the
\* unpadder, whose finalize was then called.
Unpadded ==
    /\ Finalized("P")
    /\ LastCall("finalize", "U") /\ last.active
    /\ inp["U"] = Wire

\* C1: for a block size of 8..248 bits, a message padded in any split of
\* update calls and then unpadded in any split of update calls comes back as
\* it was, and no call on the way raises.
RoundTrip ==
    scheme.block_size >= BitsPerByte =>
        /\ (Unpadded /\ flip = << >>) =>
              (last.err = NoError /\ out["U"] = inp["P"] /\ Finalized("U"))
        /\ (last.op = "update" /\ last.active /\ ~last.text) => last.err = NoError
        /\ (LastCall("finalize", "P") /\ last.active) => last.err = NoError

\* A message of MaxLen bytes, longer than a block, has made the round trip.
RoundTripWitness ==
    /\ Unpadded /\ flip = << >>
    /\ BlockBytes = 2
    /\ Len(inp["P"]) = MaxLen
    /\ out["U"] = inp["P"]

\* C3: for a block of n >= 1 bytes the padder's whole output is the message
\* followed by k bytes of value k, k = n - (len(m) mod n); a message that
\* fills its blocks gets a whole block of n bytes of value n from finalize.
PaddedContent ==
    BlockBytes >= 1 =>
        /\ Finalized("P") =>
              LET k == BlockBytes - (Len(inp["P"]) % BlockBytes)
              IN  out["P"] = inp["P"] \o [i \in 1..k |-> k]
        /\ (LastCall("finalize", "P") /\ last.active
              /\ Len(inp["P"]) % BlockBytes = 0) =>
              last.out = [i \in 1..BlockBytes |-> BlockBytes]

\* A two-byte message in two-byte blocks got a block of two 2s.
PaddedContentWitness ==
    /\ LastCall("finalize", "P") /\ last.active
    /\ BlockBytes = 2
    /\ Len(inp["P"]) = 2
    /\ last.out = <<2, 2>>

\* C4: for a block of b/8 >= 1 bytes (where len(m) mod (b/8) is defined) the
\* length of the padder's whole output is a multiple of b/8, at least
\* len(m) + 1, and equal to len(m) + (b/8 - len(m) mod (b/8)).
OutputLength ==
    (BlockBytes >= 1 /\ Finalized("P")) =>
        /\ Len(out["P"]) % BlockBytes = 0
        /\ Len(out["P"]) >= Len(inp["P"]) + 1
        /\ Len(out["P"]) = Len(inp["P"]) + (BlockBytes - (Len(inp["P"]) % BlockBytes))

\* Three bytes in two-byte blocks came out as four.
OutputLengthWitness ==
    /\ Finalized("P")
    /\ BlockBytes = 2
    /\ Len(inp["P"]) = 3
    /\ Len(out["P"]) = 4

\* pad(m) with the whole of m passed in a single update call
PadWhole(block_size, m) ==
    LET u == PaddingContext_update(Context_init(block_size), Bytes(m))
        f == PaddingContext_finalize([block_size |-> block_size, buffer |-> u.buffer])
    IN  u.result \o f.result

\* pad(m) with one update call per byte of m: the output so far and the buffer
RECURSIVE PadByByte(_, _)
PadByByte(block_size, m) ==
    IF m = EmptyBytes THEN [result |-> EmptyBytes, buffer |-> EmptyBytes]
    ELSE LET before == PadByByte(block_size, SubSeq(m, 1, Len(m) - 1))
             u == PaddingContext_update(
                      [block_size |-> block_size, buffer |-> before.buffer],
                      Bytes(<<m[Len(m)]>>))
         IN  [result |-> before.result \o u.result, buffer |-> u.buffer]

PadPerByte(block_size, m) ==
    LET u == PadByByte(block_size, m)
        f == PaddingContext_finalize([block_size |-> block_size, buffer |-> u.buffer])
    IN  u.result \o f.result

\* C5: whatever the split of the message into update calls (empty chunks
\* included), the padder's whole output is the one a single update call with
\* the whole message gives, and the one a call per byte gives.
ChunkingInvariance ==
    Finalized("P") =>
        /\ out["P"] = PadWhole(scheme.block_size, inp["P"])
        /\ out["P"] = PadPerByte(scheme.block_size, inp["P"])

\* A message of three bytes was padded with an update call that was neither
\* the whole message nor a single byte.
ChunkingInvarianceWitness ==
    /\ Finalized("P")
    /\ BlockBytes = 2
    /\ Len(inp["P"]) = 3
    /\ LastCall("finalize", "P") /\ last.active
    /\ Len(last.buf) = 1
    /\ out["P"] = PadWhole(scheme.block_size, inp["P"])

\* The flipped bit lies in one of the final pad_size bytes of the padder's
\* output, and the unpadder was given that output and finalized.
TamperedPad ==
    /\ scheme.block_size >= BitsPerByte
    /\ Unpadded
    /\ flip # << >>
    /\ flip[1] > Len(inp["P"])

\* C2 as stated, leaving aside the flips that turn the last byte into 0: a
\* flip of any bit of any of the final pad_size bytes makes the unpadder's
\* finalize fail with InvalidPadding.
TamperAlwaysDetected ==
    (TamperedPad /\ Wire[Len(Wire)] # 0) => last.err = InvalidPadding

\* The flip may leave a well-formed pad behind: it hit the very last byte,
\* whose new value fits the block, and the pad was a single byte or the new
\* value is 1.
MayPassAsPad ==
    /\ flip[1] = Len(Wire)
    /\ Wire[Len(Wire)] <= BlockBytes
    /\ (Len(Wire) - Len(inp["P"]) = 1 \/ Wire[Len(Wire)] = 1)

\* C2, amended: a flip of any bit of any of the final pad_size bytes makes the
\* unpadder's finalize fail with InvalidPadding, unless the flipped byte is
\* the very last one, its new value is at most block_size_bytes, and pad_size
\* was 1 or the new value is 1.
TamperDetected ==
    (TamperedPad /\ ~MayPassAsPad) =>
        (last.err = InvalidPadding /\ last.out = EmptyBytes /\ Active("U"))

\* A flip inside the padding, before its last byte, was rejected.
TamperDetectedWitness ==
    /\ TamperedPad
    /\ flip[1] < Len(Wire)
    /\ Len(inp["P"]) >= 1
    /\ last.err = InvalidPadding

\* C6: a finalized padder or unpadder stays finalized; every later update
\* (text included) or finalize on it raises UseAfterFinalize and returns
\* nothing.
PostFinalizeMisuse ==
    /\ [](\A e \in Engines :
            /\ (LastCall("finalize", e) /\ last.err = NoError) => Finalized(e)
            /\ (last.eng = e /\ last.op \in {"update", "finalize"} /\ ~last.active) =>
                  (last.err = UseAfterFinalize /\ last.out = EmptyBytes /\ Finalized(e)))
    /\ [][\A e \in Engines :
            Finalized(e) => (Finalized(e)' /\ out'[e] = out[e] /\ inp'[e] = inp[e])]_vars

\* Text was passed to the update of a finalized padder, which raised
\* UseAfterFinalize.
PostFinalizeMisuseWitness ==
    /\ LastCall("update", "P") /\ ~last.active /\ last.text
    /\ last.err = UseAfterFinalize
    /\ Finalized("P")

\* C7 as stated, for the block sizes of at least one byte: the unpadder's
\* finalize raises InvalidPadding whenever the total input was empty or
\* shorter than one block.
ShortInputRejected ==
    (scheme.block_size >= BitsPerByte
        /\ LastCall("finalize", "U") /\ last.active
        /\ (inp["U"] = EmptyBytes \/ Len(inp["U"]) < BlockBytes)) =>
        last.err = InvalidPadding

\* C8 as stated, for the block sizes of at least one byte: a successful
\* finalize of the unpadder returns the buffer without its last pad_size
\* bytes, pad_size being the buffer's last byte, so that the whole output is
\* the whole input without its last pad_size bytes.
UnpadResult ==
    (scheme.block_size >= BitsPerByte
        /\ LastCall("finalize", "U") /\ last.active /\ last.err = NoError) =>
        LET pad_size == last.buf[Len(last.buf)]
        IN  /\ Len(last.out) = Len(last.buf) - pad_size
            /\ last.out = SubSeq(last.buf, 1, Len(last.buf) - pad_size)
            /\ Len(out["U"]) = Len(inp["U"]) - pad_size
            /\ out["U"] = SubSeq(inp["U"], 1, Len(inp["U"]) - pad_size)

\* The buffer the last finalize of the unpadder was called with had a last
\* byte larger than the block, or has, among its last pad_size bytes, one
\* that is not pad_size.
BadPadding ==
    /\ LastCall("finalize", "U") /\ last.active
    /\ last.buf # EmptyBytes
    /\ LET pad_size == last.buf[Len(last.buf)]
       IN  \/ pad_size > BlockBytes
           \/ \E i \in 1..Len(last.buf) :
                 i > Len(last.buf) - pad_size /\ last.buf[i] # pad_size

\* C9: finalize on an active unpadder whose non-empty buffer ends in pad_size
\* raises InvalidPadding and returns nothing when pad_size is larger than the
\* block or one of the last pad_size bytes of the buffer is not pad_size.
InvalidPaddingRejected ==
    BadPadding => (last.err = InvalidPadding /\ last.out = EmptyBytes)

\* A pad length that fits the block, with a wrong byte before it, was
\* rejected.
InvalidPaddingRejectedWitness ==
    /\ BadPadding
    /\ last.buf[Len(last.buf)] <= BlockBytes
    /\ last.buf[Len(last.buf)] >= 2
    /\ last.err = InvalidPadding

\* C10 as stated: for a padder of any scheme that was constructed, finalize
\* computes a pad_size of 1..block_size_bytes and emits at least one pad byte.
PadSizeNeverZero ==
    (LastCall("finalize", "P") /\ last.active /\ last.err = NoError) =>
        /\ 1 <= last.pad_size /\ last.pad_size <= BlockBytes
        /\ Len(last.out) >= Len(last.buf) + 1

\* C11: PKCS7(v) raises the ValueError for an invalid block size exactly when
\* v is negative, 256 or more, or no multiple of 8; otherwise the object is
\* constructed with block_size v, which no later call changes and every
\* context the object makes carries.
ConstructionValidation ==
    /\ [](last.op = "init" =>
            /\ (last.err # NoError) <=>
                  (last.arg < 0 \/ last.arg >= 256 \/ last.arg % 8 # 0)
            /\ last.err \in {NoError, InvalidParameterRange, InvalidParameterMultiple}
            /\ last.err = NoError =>
                  (scheme.constructed /\ scheme.block_size = last.arg)
            /\ last.err # NoError => ~scheme.constructed)
    /\ [](\A e \in DOMAIN ctx :
            scheme.constructed /\ ctx[e].block_size = scheme.block_size)
    /\ [][scheme.constructed => scheme' = scheme]_vars

\* The block size 255, in range but no multiple of 8, was refused.
ConstructionValidationWitness ==
    /\ last.op = "init"
    /\ last.arg = 255
    /\ last.err = InvalidParameterMultiple
    /\ ~scheme.constructed

\* The last call passed text to the update of a context that was active.
TextRejected == last.op = "update" /\ last.text /\ last.active

\* C12: update with text on an active padder or unpadder raises the TypeError
\* of its context, returns nothing, and leaves every context's buffer, its
\* active state and all that was passed and returned so far as they were.
EncodingErrorFrame ==
    /\ [](TextRejected =>
            /\ last.eng = "P" => last.err = EncodingErrorPad
            /\ last.eng = "U" => last.err = EncodingErrorUnpad
            /\ last.out = EmptyBytes
            /\ ctx[last.eng].buffer = last.buf
            /\ Active(last.eng))
    /\ [][TextRejected' => (ctx' = ctx /\ inp' = inp /\ out' = out /\ scheme' = scheme)]_vars

\* Text was refused by an unpadder that keeps the bytes it held.
EncodingErrorFrameWitness ==
    /\ TextRejected
    /\ last.eng = "U"
    /\ last.err = EncodingErrorUnpad
    /\ Len(ctx["U"].buffer) >= 2
    /\ ctx["U"].buffer = last.buf

\* C13: whenever finalize fails on an active unpadder, it fails with the one
\* ValueError("Invalid padding bytes"), be the buffer empty, its last byte
\* larger than the block, or a byte anywhere in the padding window wrong.
UniformPaddingError ==
    (LastCall("finalize", "U") /\ last.active) =>
        /\ last.err # NoError => (last.err = InvalidPadding /\ last.out = EmptyBytes)
        /\ last.buf = EmptyBytes => last.err = InvalidPadding
        /\ BadPadding => last.err = InvalidPadding

\* A last byte larger than the block was refused with the same error as an
\* empty buffer is.
UniformPaddingErrorWitness ==
    /\ LastCall("finalize", "U") /\ last.active
    /\ BlockBytes >= 1
    /\ Len(last.buf) >= 2
    /\ last.buf[Len(last.buf)] > BlockBytes
    /\ last.err = InvalidPadding

\* unpad(c) with the whole of c passed in a single update call: the bytes
\* returned, the exception of finalize, and the buffer left behind
UnpadWhole(block_size, c) ==
    LET u == UnpaddingContext_update(Context_init(block_size), Bytes(c))
        f == UnpaddingContext_finalize([block_size |-> block_size, buffer |-> u.buffer])
    IN  [result |-> u.result \o f.result, err |-> f.err, buffer |-> f.buffer]

\* Context e, used alone on a scheme of its own with the calls made on it so
\* far, would hold the buffer it holds and would have returned what it has.
AsAlone(e) ==
    LET c == Context_init(scheme.block_size)
        u == IF IsPadder(e) THEN PaddingContext_update(c, Bytes(inp[e]))
             ELSE UnpaddingContext_update(c, Bytes(inp[e]))
    IN  IF Active(e)
        THEN ctx[e].buffer = u.buffer /\ out[e] = u.result
        ELSE out[e] = IF IsPadder(e) THEN PadWhole(scheme.block_size, inp[e])
                      ELSE UnpadWhole(scheme.block_size, inp[e]).result

\* C14: padder() and unpadder() return a context that is active with an empty
\* buffer, however many were made before; a call on one context changes
\* neither the buffer, the state and the outputs of any other context nor the
\* block size of the PKCS7 object; so each context holds and has returned what
\* it would have when used alone.
EngineIndependence ==
    /\ [](last.op = "factory" =>
            /\ ctx[last.eng] = Context_init(scheme.block_size)
            /\ ctx[last.eng].buffer = EmptyBytes
            /\ Active(last.eng))
    /\ [](\A e \in MultiEngines : Made(e) => AsAlone(e))
    /\ [][/\ \A e \in MultiEngines :
               (Made(e) /\ last'.eng # e) =>
                   (ctx'[e] = ctx[e] /\ inp'[e] = inp[e] /\ out'[e] = out[e])
          /\ scheme.constructed => scheme' = scheme]_vars

\* The second padder was just made while the first one holds a byte and the
\* unpadder two.
EngineIndependenceWitness ==
    /\ LastCall("factory", "P2")
    /\ ctx["P2"].buffer = EmptyBytes
    /\ Active("P") /\ ctx["P"].buffer = <<0>>
    /\ Active("U") /\ ctx["U"].buffer = <<1, 1>>

\* self._buffer of context e right after the += data of its last update call:
\* all it was passed so far, without what the calls before returned
Appended(e) == SubSeq(inp[e], Len(out[e]) - Len(last.out) + 1, Len(inp[e]))

\* C15: with a block of n >= 1 bytes, an update of the unpadder returns the
\* first max(len(buffer) div n - 1, 0) * n bytes of the buffer and keeps the
\* rest; as long as the unpadder is active its buffer has fewer than 2n
\* bytes, at least n once it was passed n bytes in all, and what it returned
\* followed by the buffer is what it was passed.
UnpadderWithholds ==
    (BlockBytes >= 1 /\ Active("U")) =>
        /\ Len(ctx["U"].buffer) < 2 * BlockBytes
        /\ Len(inp["U"]) >= BlockBytes => Len(ctx["U"].buffer) >= BlockBytes
        /\ out["U"] \o ctx["U"].buffer = inp["U"]
        /\ (LastCall("update", "U") /\ ~last.text) =>
              LET n == Max(Len(Appended("U")) \div BlockBytes - 1, 0) * BlockBytes
              IN  /\ last.out = SubSeq(Appended("U"), 1, n)
                  /\ ctx["U"].buffer = SubSeq(Appended("U"), n + 1, Len(Appended("U")))

\* An update that brought a two-byte buffer to four bytes returned the first
\* block and kept the second.
UnpadderWithholdsWitness ==
    /\ LastCall("update", "U") /\ last.active /\ ~last.text
    /\ BlockBytes = 2
    /\ Len(last.buf) = 2
    /\ Len(inp["U"]) = 4
    /\ last.out = SubSeq(inp["U"], 1, 2)
    /\ ctx["U"].buffer = SubSeq(inp["U"], 3, 4)

\* C16: with a block of n >= 1 bytes, an update of the padder returns the
\* first (len(buffer) div n) * n bytes of the buffer and keeps the rest; as
\* long as the padder is active its buffer has 0..n-1 bytes, each update
\* returned a multiple of n bytes, and what it returned followed by the buffer
\* is what it was passed.
PadderBuffers ==
    (BlockBytes >= 1 /\ Active("P")) =>
        /\ Len(ctx["P"].buffer) <= BlockBytes - 1
        /\ Len(out["P"]) % BlockBytes = 0
        /\ out["P"] \o ctx["P"].buffer = inp["P"]
        /\ (LastCall("update", "P") /\ ~last.text) =>
              LET n == (Len(Appended("P")) \div BlockBytes) * BlockBytes
              IN  /\ last.out = SubSeq(Appended("P"), 1, n)
                  /\ Len(last.out) % BlockBytes = 0
                  /\ ctx["P"].buffer = SubSeq(Appended("P"), n + 1, Len(Appended("P")))

\* An update that brought a one-byte buffer to three bytes returned a block
\* of two and kept one byte.
PadderBuffersWitness ==
    /\ LastCall("update", "P") /\ last.active /\ ~last.text
    /\ BlockBytes = 2
    /\ Len(last.buf) = 1
    /\ Len(inp["P"]) = 3
    /\ last.out = SubSeq(inp["P"], 1, 2)
    /\ ctx["P"].buffer = SubSeq(inp["P"], 3, 3)

\* The last call was a finalize of the active unpadder that got as far as the
\* loop over the padding window.
ContentChecked ==
    /\ LastCall("finalize", "U") /\ last.active
    /\ last.buf # EmptyBytes
    /\ last.pad_size <= BlockBytes

\* self._buffer[-pad_size:] of a buffer, pad_size being its last byte
Window(buf) == SliceFrom(buf, -buf[Len(buf)])

\* The buffers of the length and with the last byte of buf, each other byte
\* being that last byte or one that differs from it
SameShape(buf) ==
    {b \in [1..Len(buf) -> {buf[Len(buf)], Xor(buf[Len(buf)], 1)}] :
        b[Len(buf)] = buf[Len(buf)]}

\* C17: when finalize of the unpadder reaches the content check, it goes
\* through every byte of the window buffer[-pad_size:], ORs every b ^ pad_size
\* into mismatch and raises only after the loop, exactly when some byte of
\* the window differs; the number of comparisons is that of any buffer of the
\* same length and last byte, wherever its mismatches are.
NoShortCircuit ==
    ContentChecked =>
        LET w == Window(last.buf)
        IN  /\ last.compares = Len(w)
            /\ (last.err = InvalidPadding) <=> (\E i \in 1..Len(w) : w[i] # last.pad_size)
            /\ (last.err = NoError) <=> (Mismatch(w, last.pad_size) = 0)
            /\ \A b \in SameShape(last.buf) :
                  UnpaddingContext_finalize(
                      [block_size |-> scheme.block_size, buffer |-> b]).compares
                      = last.compares

\* A window of two bytes whose first byte is wrong was gone through to its
\* end before the error was raised.
NoShortCircuitWitness ==
    /\ ContentChecked
    /\ last.pad_size = 2
    /\ Len(last.buf) >= 2
    /\ last.buf[Len(last.buf) - 1] # 2
    /\ last.compares = 2
    /\ last.err = InvalidPadding

\* The last call was a finalize of the unpadder that raised the padding error.
FailedFinalize == LastCall("finalize", "U") /\ last.err = InvalidPadding

\* C18: a finalize of the unpadder that raises the padding error returns
\* nothing and leaves the buffer and the active state as they were; a finalize
\* right after it raises the padding error again, an update right after it is
\* taken as on any active unpadder, and the unpadder holds and has returned
\* what the updates alone account for.
FailedFinalizeKeeps ==
    /\ [](FailedFinalize =>
            /\ last.active
            /\ last.out = EmptyBytes
            /\ ctx["U"].buffer = last.buf
            /\ Active("U"))
    /\ [](Active("U") =>
            LET u == UnpaddingContext_update(Context_init(scheme.block_size),
                                             Bytes(inp["U"]))
            IN  ctx["U"].buffer = u.buffer /\ out["U"] = u.result)
    /\ [][FailedFinalize' => (ctx' = ctx /\ inp' = inp /\ out' = out)]_vars
    /\ [][(FailedFinalize /\ LastCall("finalize", "U")') =>
              last'.err = InvalidPadding]_vars
    /\ [][(FailedFinalize /\ LastCall("update", "U")') =>
              /\ last'.active
              /\ last'.err # UseAfterFinalize
              /\ (~last'.text /\ BlockBytes >= 1) => last'.err = NoError]_vars

\* Two bytes that are no padding were refused and are still in the buffer of
\* the unpadder, which is still active.
FailedFinalizeKeepsWitness ==
    /\ FailedFinalize
    /\ BlockBytes = 2
    /\ Len(last.buf) = 2
    /\ last.pad_size = 2
    /\ ctx["U"].buffer = last.buf
    /\ Active("U")

\* unpad(c) with one update call per byte of c: the output so far and the
\* buffer
RECURSIVE UnpadByByte(_, _)
UnpadByByte(block_size, c) ==
    IF c = EmptyBytes THEN [result |-> EmptyBytes, buffer |-> EmptyBytes]
    ELSE LET before == UnpadByByte(block_size, SubSeq(c, 1, Len(c) - 1))
             u == UnpaddingContext_update(
                      [block_size |-> block_size, buffer |-> before.buffer],
                      Bytes(<<c[Len(c)]>>))
         IN  [result |-> before.result \o u.result, buffer |-> u.buffer]

UnpadPerByte(block_size, c) ==
    LET u == UnpadByByte(block_size, c)
        f == UnpaddingContext_finalize([block_size |-> block_size, buffer |-> u.buffer])
    IN  [result |-> u.result \o f.result, err |-> f.err, buffer |-> f.buffer]

\* C19: with a block of n >= 1 bytes, whatever the split of the input into
\* update calls, finalize of the unpadder ends as it does after a single
\* update with the whole input and as it does after one update per byte:
\* with the same error or, with none, the same whole output.
UnpadChunkingInvariance ==
    (BlockBytes >= 1 /\ LastCall("finalize", "U") /\ last.active) =>
        LET whole == UnpadWhole(scheme.block_size, inp["U"])
            bytewise == UnpadPerByte(scheme.block_size, inp["U"])
        IN  /\ last.err = whole.err
            /\ last.err = bytewise.err
            /\ last.err \in {NoError, InvalidPadding}
            /\ last.err = NoError =>
                  (out["U"] = whole.result /\ out["U"] = bytewise.result)

\* Four bytes the caller chose, passed in some split, were unpadded to the
\* two bytes a single update gives.
UnpadChunkingInvarianceWitness ==
    /\ LastCall("finalize", "U") /\ last.active
    /\ ~Made("P")
    /\ BlockBytes = 2
    /\ Len(inp["U"]) = 4
    /\ last.err = NoError
    /\ Len(out["U"]) = 2
    /\ out["U"] = UnpadWhole(scheme.block_size, inp["U"]).result

\* C20 as stated: for a block size of 8..248 bits, a finalize of the unpadder
\* that succeeds has returned, in all, a message whose padding is the input:
\* the input is a positive multiple of the block long and ends in k bytes of
\* value k for some k in 1..block_size_bytes.
AcceptsOnlyPadded ==
    (scheme.block_size >= BitsPerByte
        /\ LastCall("finalize", "U") /\ last.active /\ last.err = NoError) =>
        /\ PadWhole(scheme.block_size, out["U"]) = inp["U"]
        /\ Len(inp["U"]) > 0
        /\ Len(inp["U"]) % BlockBytes = 0
        /\ \E k \in 1..BlockBytes :
              /\ k <= Len(inp["U"])
              /\ \A i \in (Len(inp["U"]) - k + 1)..Len(inp["U"]) : inp["U"][i] = k

====
